---- MODULE Spec2Model ----
(***************************************************************************)
(* InspectorPerformanceAgent (core/inspector/InspectorPerformanceAgent.cpp) *)
(* as a state machine: the agent's fields, the host's stack of open probes, *)
(* the host clock, and one action per handler of the agent.                 *)
(***************************************************************************)
EXTENDS Integers, Sequences, FiniteSets

\* The host clock runs from 1 to MaxTime; every probe and task event takes
\* one unit of time, so MaxTime also bounds the number of events of a run.
MaxTime == 6
\* The deepest nesting of open probes on the host's call stack.
MaxDepth == 2

VARIABLES
  enabled_,                \* bool enabled_
  state_,                  \* state_->booleanProperty(kPerformanceAgentEnabled)
  instrumenting_agents_,   \* registrations of this agent with the dispatcher
  task_time_observers,     \* registrations of this agent with the scheduler
  layout_duration_,
  recalc_style_duration_,
  script_duration_,
  task_duration_,
  task_start_time_,
  layout_count_,
  recalc_style_count_,
  script_call_depth_,
  layout_depth_,
  now,                     \* the host's monotonic clock
  probes,                  \* the host's stack of open probe objects
  task_begun,              \* the latest WillProcessTask: its start time, and the
                           \* intervals added to task_duration_ since
  out_result,              \* what the handler that ran last returned in *out_result
  queried,                 \* collaborators the handler that ran last queried
  frontend,                \* events the handler that ran last pushed to the frontend
  last                     \* the handler that ran last, with its inputs

agent == <<enabled_, state_, instrumenting_agents_, task_time_observers>>
counters == <<layout_duration_, recalc_style_duration_, script_duration_,
              task_duration_, layout_count_, recalc_style_count_>>
depths == <<script_call_depth_, layout_depth_>>
window == <<task_start_time_, task_begun>>
output == <<out_result, queried, frontend>>
vars == <<agent, counters, depths, window, output, now, probes, last>>

\* The probe categories the instrumentation dispatcher reports.
Kinds == {"CallFunction", "ExecuteScript", "RecalculateStyle", "UpdateLayout"}

\* The counter a category's probes feed: both script categories share one.
Group(kind) ==
  CASE kind \in {"CallFunction", "ExecuteScript"} -> "script"
    [] kind = "UpdateLayout" -> "layout"
    [] OTHER -> "style"

Init ==
  /\ enabled_ = FALSE
  /\ state_ \in BOOLEAN
  /\ instrumenting_agents_ = 0
  /\ task_time_observers = 0
  /\ layout_duration_ = 0
  /\ recalc_style_duration_ = 0
  /\ script_duration_ = 0
  /\ task_duration_ = 0
  /\ task_start_time_ = 0
  /\ layout_count_ = 0
  /\ recalc_style_count_ = 0
  /\ script_call_depth_ = 0
  /\ layout_depth_ = 0
  /\ now = 1
  /\ probes = <<>>
  /\ task_begun = [start_time |-> 0, intervals |-> 0]
  /\ out_result = <<>>
  /\ queried = {}
  /\ frontend = <<>>
  /\ last = [op |-> "constructor"]

\* A handler that returns no metrics, asks no collaborator and pushes nothing.
Quiet == out_result' = <<>> /\ queried' = {} /\ frontend' = <<>>

\* ---- Enablement: Restore, enable, disable (lines 37-61) ----

Response_OK == "OK"

\* enable() without the early return: an enabled agent registers again.
Enable_Unguarded(op) ==
  /\ enabled_' = TRUE
  /\ state_' = TRUE
  /\ instrumenting_agents_' = instrumenting_agents_ + 1
  /\ task_time_observers' = task_time_observers + 1
  /\ task_start_time_' = 0
  /\ Quiet
  /\ last' = [op |-> op, was |-> enabled_, flag |-> state_, response |-> Response_OK]
  /\ UNCHANGED <<counters, depths, task_begun, now, probes>>

\* enable() that starts every enabled period from cleared totals.
Enable_ClearsTotals(op) ==
  /\ IF enabled_
       THEN UNCHANGED <<agent, task_start_time_, counters>>
       ELSE /\ enabled_' = TRUE
            /\ state_' = TRUE
            /\ instrumenting_agents_' = instrumenting_agents_ + 1
            /\ task_time_observers' = task_time_observers + 1
            /\ task_start_time_' = 0
            /\ layout_duration_' = 0 /\ recalc_style_duration_' = 0
            /\ script_duration_' = 0 /\ task_duration_' = 0
            /\ layout_count_' = 0 /\ recalc_style_count_' = 0
  /\ Quiet
  /\ last' = [op |-> op, was |-> enabled_, flag |-> state_, response |-> Response_OK]
  /\ UNCHANGED <<depths, task_begun, now, probes>>

\* enable() that keeps the task window of the previous enabled period.
Enable_KeepsWindow(op) ==
  /\ IF enabled_
       THEN UNCHANGED agent
       ELSE /\ enabled_' = TRUE
            /\ state_' = TRUE
            /\ instrumenting_agents_' = instrumenting_agents_ + 1
            /\ task_time_observers' = task_time_observers + 1
  /\ Quiet
  /\ last' = [op |-> op, was |-> enabled_, flag |-> state_, response |-> Response_OK]
  /\ UNCHANGED <<counters, depths, window, now, probes>>

\* enable(), run on behalf of `op` (the command itself, or Restore).
Enable(op) ==
  /\ IF enabled_
       THEN UNCHANGED <<agent, task_start_time_>>
       ELSE /\ enabled_' = TRUE
            /\ state_' = TRUE
            /\ instrumenting_agents_' = instrumenting_agents_ + 1
            /\ task_time_observers' = task_time_observers + 1
            /\ task_start_time_' = 0
  /\ Quiet
  /\ last' = [op |-> op, was |-> enabled_, flag |-> state_, response |-> Response_OK]
  /\ UNCHANGED <<counters, depths, task_begun, now, probes>>

enable == Enable("enable")

\* disable() that leaves the probe hooks and the task observer registered.
disable_StaysRegistered ==
  /\ IF ~enabled_
       THEN UNCHANGED agent
       ELSE /\ enabled_' = FALSE
            /\ state_' = FALSE
            /\ UNCHANGED <<instrumenting_agents_, task_time_observers>>
  /\ Quiet
  /\ last' = [op |-> "disable", was |-> enabled_, flag |-> state_,
               response |-> Response_OK]
  /\ UNCHANGED <<counters, depths, window, now, probes>>

\* disable() that forgets to persist the flag.
disable_NotPersisted ==
  /\ IF ~enabled_
       THEN UNCHANGED agent
       ELSE /\ enabled_' = FALSE
            /\ instrumenting_agents_' =
                 IF instrumenting_agents_ > 0 THEN instrumenting_agents_ - 1 ELSE 0
            /\ task_time_observers' =
                 IF task_time_observers > 0 THEN task_time_observers - 1 ELSE 0
            /\ UNCHANGED state_
  /\ Quiet
  /\ last' = [op |-> "disable", was |-> enabled_, flag |-> state_,
               response |-> Response_OK]
  /\ UNCHANGED <<counters, depths, window, now, probes>>

disable ==
  /\ IF ~enabled_
       THEN UNCHANGED agent
       ELSE /\ enabled_' = FALSE
            /\ state_' = FALSE
            /\ instrumenting_agents_' =
                 IF instrumenting_agents_ > 0 THEN instrumenting_agents_ - 1 ELSE 0
            /\ task_time_observers' =
                 IF task_time_observers > 0 THEN task_time_observers - 1 ELSE 0
  /\ Quiet
  /\ last' = [op |-> "disable", was |-> enabled_, flag |-> state_,
               response |-> Response_OK]
  /\ UNCHANGED <<counters, depths, window, now, probes>>

\* Restore() that enables whatever the persisted flag says.
Restore_IgnoresFlag == Enable("Restore")

Restore ==
  IF state_
    THEN Enable("Restore")
    ELSE /\ Quiet
         /\ last' = [op |-> "Restore", was |-> enabled_, flag |-> state_,
                      response |-> Response_OK]
         /\ UNCHANGED <<agent, counters, depths, window, now, probes>>

\* ---- The host side of a probe: the probe object and the call stack ----

\* Whether the dispatcher currently calls this agent's Will/Did hooks.
Attached == instrumenting_agents_ > 0

Top == probes[Len(probes)]

\* A probe object as the host builds it for one unit of work.  start_time_ is
\* the probe's own field (0 until CaptureStartTime); the other fields record
\* the circumstances of its begin-event: the host time, whether the agent
\* received it, and the agent's depth, duration and count for the probe's
\* category at that moment.  broken collects the categories of which the
\* agent saw only one event of a pair nested in this probe, inner those of
\* which it saw both.
NewProbe(kind, delivered, depth0, dur0, cnt0) ==
  [kind |-> kind, start_time_ |-> 0, begin |-> now, delivered |-> delivered,
   depth0 |-> depth0, dur0 |-> dur0, cnt0 |-> cnt0, broken |-> {}, inner |-> {}]

\* probe.CaptureStartTime(): sets the start time unless already set.
CaptureStartTime(probe) ==
  IF probe.start_time_ = 0 THEN [probe EXCEPT !.start_time_ = now] ELSE probe

\* probe.Duration(): the end time (now) minus the captured start time.
Duration(probe) == now - probe.start_time_

\* The host enters a unit of work: the probe goes on the stack, time passes.
HostBegin(probe) ==
  /\ probes' = Append(probes, probe)
  /\ now' = now + 1

CanBegin == now < MaxTime /\ Len(probes) < MaxDepth

CanEnd(kind) == now < MaxTime /\ probes # <<>> /\ Top.kind = kind

\* The host leaves the innermost unit of work: the probe is destroyed, time
\* passes.  received tells whether the agent got the end-event.
HostEnd(received) ==
  LET q == Top
      rest == SubSeq(probes, 1, Len(probes) - 1)
      broken == q.broken \cup
                  (IF q.delivered # received THEN {Group(q.kind)} ELSE {})
      inner == q.inner \cup
                  (IF q.delivered /\ received THEN {Group(q.kind)} ELSE {})
  IN /\ probes' = IF rest = <<>> THEN rest
                  ELSE [rest EXCEPT ![Len(rest)] =
                          [@ EXCEPT !.broken = @ \cup broken,
                                    !.inner = @ \cup inner]]
     /\ now' = now + 1

\* Work that begins or ends while the hooks are detached: no handler runs.
ProbeBeginDetached(kind) ==
  /\ ~Attached /\ CanBegin
  /\ HostBegin(NewProbe(kind, FALSE, 0, 0, 0))
  /\ Quiet
  /\ last' = [op |-> "ProbeBeginDetached"]
  /\ UNCHANGED <<agent, counters, depths, window>>

ProbeEndDetached ==
  /\ ~Attached /\ now < MaxTime /\ probes # <<>>
  /\ HostEnd(FALSE)
  /\ Quiet
  /\ last' = [op |-> "ProbeEndDetached"]
  /\ UNCHANGED <<agent, counters, depths, window>>

\* ---- Probe handlers (lines 124-163) ----

\* Will(const probe::CallFunction&) and Will(const probe::ExecuteScript&)
WillScript(kind) ==
  /\ Attached /\ CanBegin
  /\ script_call_depth_' = script_call_depth_ + 1
  /\ LET probe == NewProbe(kind, TRUE, script_call_depth_, script_duration_, 0)
     IN HostBegin(IF script_call_depth_ = 0 THEN CaptureStartTime(probe) ELSE probe)
  /\ Quiet
  /\ last' = [op |-> "Will", kind |-> kind]
  /\ UNCHANGED <<agent, counters, layout_depth_, window>>

\* Did for the script categories without the depth guard: every end-event
\* adds its probe's duration.
DidScript_EveryEnd(kind) ==
  /\ Attached /\ CanEnd(kind)
  /\ script_call_depth_' = script_call_depth_ - 1
  /\ script_duration_' = script_duration_ + Duration(Top)
  /\ HostEnd(TRUE)
  /\ Quiet
  /\ last' = [op |-> "Did", kind |-> kind, probe |-> Top, at |-> now,
               duration |-> script_duration_, count |-> 0]
  /\ UNCHANGED <<agent, layout_duration_, recalc_style_duration_, task_duration_,
                 layout_count_, recalc_style_count_, layout_depth_, window>>

\* Did for the script categories where a function call is accounted on its
\* own, whatever the shared depth.
DidScript_FunctionAlwaysCounts(kind) ==
  /\ Attached /\ CanEnd(kind)
  /\ script_call_depth_' = script_call_depth_ - 1
  /\ script_duration_' = IF script_call_depth_' = 0 \/ kind = "CallFunction"
                           THEN script_duration_ + (now - Top.begin)
                           ELSE script_duration_
  /\ HostEnd(TRUE)
  /\ Quiet
  /\ last' = [op |-> "Did", kind |-> kind, probe |-> Top, at |-> now,
               duration |-> script_duration_, count |-> 0]
  /\ UNCHANGED <<agent, layout_duration_, recalc_style_duration_, task_duration_,
                 layout_count_, recalc_style_count_, layout_depth_, window>>

\* Did(const probe::CallFunction&) and Did(const probe::ExecuteScript&)
DidScript(kind) ==
  /\ Attached /\ CanEnd(kind)
  /\ script_call_depth_' = script_call_depth_ - 1
  /\ script_duration_' = IF script_call_depth_' = 0
                           THEN script_duration_ + Duration(Top)
                           ELSE script_duration_
  /\ HostEnd(TRUE)
  /\ Quiet
  /\ last' = [op |-> "Did", kind |-> kind, probe |-> Top, at |-> now,
               duration |-> script_duration_, count |-> 0]
  /\ UNCHANGED <<agent, layout_duration_, recalc_style_duration_, task_duration_,
                 layout_count_, recalc_style_count_, layout_depth_, window>>

WillCallFunction == WillScript("CallFunction")

DidCallFunction == DidScript("CallFunction")

WillExecuteScript == WillScript("ExecuteScript")

DidExecuteScript == DidScript("ExecuteScript")

\* WillRecalculateStyle capturing the start time for the outermost call only,
\* as the guarded categories do.
WillRecalculateStyle_Guarded ==
  /\ Attached /\ CanBegin
  /\ LET probe == NewProbe("RecalculateStyle", TRUE, 0, recalc_style_duration_,
                           recalc_style_count_)
     IN HostBegin(IF \E i \in 1..Len(probes) : probes[i].kind = "RecalculateStyle"
                    THEN probe ELSE CaptureStartTime(probe))
  /\ Quiet
  /\ last' = [op |-> "Will", kind |-> "RecalculateStyle"]
  /\ UNCHANGED <<agent, counters, depths, window>>

WillRecalculateStyle ==
  /\ Attached /\ CanBegin
  /\ HostBegin(CaptureStartTime(NewProbe("RecalculateStyle", TRUE, 0,
                                         recalc_style_duration_,
                                         recalc_style_count_)))
  /\ Quiet
  /\ last' = [op |-> "Will", kind |-> "RecalculateStyle"]
  /\ UNCHANGED <<agent, counters, depths, window>>

DidRecalculateStyle ==
  /\ Attached /\ CanEnd("RecalculateStyle")
  /\ recalc_style_duration_' = recalc_style_duration_ + Duration(Top)
  /\ recalc_style_count_' = recalc_style_count_ + 1
  /\ HostEnd(TRUE)
  /\ Quiet
  /\ last' = [op |-> "Did", kind |-> "RecalculateStyle", probe |-> Top, at |-> now,
               duration |-> recalc_style_duration_, count |-> recalc_style_count_]
  /\ UNCHANGED <<agent, layout_duration_, script_duration_, task_duration_,
                 layout_count_, depths, window>>

\* WillUpdateLayout counting only the outermost begin-event.
WillUpdateLayout_CountsOutermostOnly ==
  /\ Attached /\ CanBegin
  /\ layout_depth_' = IF layout_depth_ = 0 THEN 1 ELSE layout_depth_
  /\ LET probe == NewProbe("UpdateLayout", TRUE, layout_depth_,
                           layout_duration_, layout_count_)
     IN HostBegin(IF layout_depth_ = 0 THEN CaptureStartTime(probe) ELSE probe)
  /\ Quiet
  /\ last' = [op |-> "Will", kind |-> "UpdateLayout"]
  /\ UNCHANGED <<agent, counters, script_call_depth_, window>>

WillUpdateLayout ==
  /\ Attached /\ CanBegin
  /\ layout_depth_' = layout_depth_ + 1
  /\ LET probe == NewProbe("UpdateLayout", TRUE, layout_depth_,
                           layout_duration_, layout_count_)
     IN HostBegin(IF layout_depth_ = 0 THEN CaptureStartTime(probe) ELSE probe)
  /\ Quiet
  /\ last' = [op |-> "Will", kind |-> "UpdateLayout"]
  /\ UNCHANGED <<agent, counters, script_call_depth_, window>>

\* DidUpdateLayout without the depth guard: every end-event is accounted.
DidUpdateLayout_EveryEnd ==
  /\ Attached /\ CanEnd("UpdateLayout")
  /\ layout_depth_' = layout_depth_ - 1
  /\ layout_duration_' = layout_duration_ + Duration(Top)
  /\ layout_count_' = layout_count_ + 1
  /\ HostEnd(TRUE)
  /\ Quiet
  /\ last' = [op |-> "Did", kind |-> "UpdateLayout", probe |-> Top, at |-> now,
               duration |-> layout_duration_, count |-> layout_count_]
  /\ UNCHANGED <<agent, recalc_style_duration_, script_duration_, task_duration_,
                 recalc_style_count_, script_call_depth_, window>>

DidUpdateLayout ==
  /\ Attached /\ CanEnd("UpdateLayout")
  /\ layout_depth_' = layout_depth_ - 1
  /\ IF layout_depth_' # 0
       THEN UNCHANGED <<layout_duration_, layout_count_>>
       ELSE /\ layout_duration_' = layout_duration_ + Duration(Top)
            /\ layout_count_' = layout_count_ + 1
  /\ HostEnd(TRUE)
  /\ Quiet
  /\ last' = [op |-> "Did", kind |-> "UpdateLayout", probe |-> Top, at |-> now,
               duration |-> layout_duration_, count |-> layout_count_]
  /\ UNCHANGED <<agent, recalc_style_duration_, script_duration_, task_duration_,
                 recalc_style_count_, script_call_depth_, window>>

\* ---- Task time observer (lines 165-173) ----

\* The scheduler reports a task that starts now.
WillProcessTask ==
  /\ task_time_observers > 0 /\ now < MaxTime
  /\ task_start_time_' = now
  /\ task_begun' = [start_time |-> now, intervals |-> 0]
  /\ now' = now + 1
  /\ Quiet
  /\ last' = [op |-> "WillProcessTask", start_time |-> now]
  /\ UNCHANGED <<agent, counters, depths, probes>>

\* DidProcessTask without the pairing check: every end-event is accounted.
DidProcessTask_Unchecked ==
  /\ task_time_observers > 0 /\ now < MaxTime
  /\ \E start_time \in 1..now :
       /\ task_duration_' = task_duration_ + (now - start_time)
       /\ task_begun' = [task_begun EXCEPT !.intervals = @ + 1]
       /\ Quiet
       /\ last' = [op |-> "DidProcessTask", start_time |-> start_time,
                   end_time |-> now, stored |-> task_start_time_,
                   begun |-> task_begun.start_time, before |-> task_duration_]
  /\ now' = now + 1
  /\ UNCHANGED <<agent, layout_duration_, recalc_style_duration_, script_duration_,
                 layout_count_, recalc_style_count_, depths, task_start_time_, probes>>

\* The scheduler reports the end, now, of a task that says it began at
\* start_time.
DidProcessTask ==
  /\ task_time_observers > 0 /\ now < MaxTime
  /\ \E start_time \in 1..now :
       /\ task_duration_' = IF task_start_time_ = start_time
                              THEN task_duration_ + (now - start_time)
                              ELSE task_duration_
       /\ task_begun' = IF task_start_time_ = start_time
                          THEN [task_begun EXCEPT !.intervals = @ + 1]
                          ELSE task_begun
       /\ Quiet
       /\ last' = [op |-> "DidProcessTask", start_time |-> start_time,
                   end_time |-> now, stored |-> task_start_time_,
                   begun |-> task_begun.start_time, before |-> task_duration_]
  /\ now' = now + 1
  /\ UNCHANGED <<agent, layout_duration_, recalc_style_duration_, script_duration_,
                 layout_count_, recalc_style_count_, depths, task_start_time_, probes>>

\* Time passing with no event for the agent.
Tick ==
  /\ now < MaxTime
  /\ now' = now + 1
  /\ Quiet
  /\ last' = [op |-> "Tick"]
  /\ UNCHANGED <<agent, counters, depths, window, probes>>

\* ---- Snapshot: getMetrics, ConsoleTimeStamp (lines 64-122) ----

\* kInstanceCounterNames: one name per instance-counter type, in the
\* provider's enumeration order.
kInstanceCounterNames == <<"AudioHandlerCount", "DocumentCount">>

\* What the instance-counter provider may answer: a value per counter type.
InstanceCounterValues ==
  {[i \in 1..Len(kInstanceCounterNames) |-> 0],
   [i \in 1..Len(kInstanceCounterNames) |-> i]}

\* What inspected_frames_->Root()->GetDocument() may answer: no document, or
\* a document with its paint and document timings.
NoDocument == [available |-> FALSE]

Documents ==
  {NoDocument,
   [available |-> TRUE, FirstMeaningfulPaint |-> 2, DomContentLoadedEventStart |-> 1]}

Titles == {"mark"}

\* AppendMetric(container, name, value)
AppendMetric(container, name, value) ==
  Append(container, [name |-> name, value |-> value])

RECURSIVE InstanceCounterMetrics(_, _)
\* The loop of lines 86-90, up to counter type i.
InstanceCounterMetrics(values, i) ==
  IF i = 0 THEN <<>>
  ELSE AppendMetric(InstanceCounterMetrics(values, i - 1),
                    kInstanceCounterNames[i], values[i])

\* The page performance metrics with the two durations reported under each
\* other's name.
PageMetrics_DurationsSwapped(container) ==
  LET m1 == AppendMetric(container, "LayoutCount", layout_count_)
      m2 == AppendMetric(m1, "RecalcStyleCount", recalc_style_count_)
      m3 == AppendMetric(m2, "LayoutDuration", script_duration_)
      m4 == AppendMetric(m3, "RecalcStyleDuration", recalc_style_duration_)
      m5 == AppendMetric(m4, "ScriptDuration", layout_duration_)
  IN AppendMetric(m5, "TaskDuration", task_duration_)

\* Lines 93-99: the page performance metrics.
PageMetrics(container) ==
  LET m1 == AppendMetric(container, "LayoutCount", layout_count_)
      m2 == AppendMetric(m1, "RecalcStyleCount", recalc_style_count_)
      m3 == AppendMetric(m2, "LayoutDuration", layout_duration_)
      m4 == AppendMetric(m3, "RecalcStyleDuration", recalc_style_duration_)
      m5 == AppendMetric(m4, "ScriptDuration", script_duration_)
  IN AppendMetric(m5, "TaskDuration", task_duration_)

\* Lines 102-110: the performance timings, when there is a document.
TimingMetrics(container, document) ==
  IF document.available
    THEN AppendMetric(AppendMetric(container, "FirstMeaningfulPaint",
                                   document.FirstMeaningfulPaint),
                      "DomContentLoaded", document.DomContentLoadedEventStart)
    ELSE container

\* getMetrics() without the early return for a disabled agent.
Metrics_Ungated(values, document) ==
  TimingMetrics(
    PageMetrics(InstanceCounterMetrics(values, Len(kInstanceCounterNames))),
    document)

\* The list getMetrics() builds, given what the collaborators answer.
Metrics(values, document) ==
  IF ~enabled_ THEN <<>>
  ELSE TimingMetrics(
         PageMetrics(InstanceCounterMetrics(values, Len(kInstanceCounterNames))),
         document)

\* The collaborators getMetrics() calls on the way.
Queries(document) ==
  IF ~enabled_ THEN {}
  ELSE {"InstanceCounters", "InspectedFrames"} \cup
       (IF document.available THEN {"PaintTiming", "DocumentTiming"} ELSE {})

\* getMetrics() that starts a new measuring period after each snapshot.
getMetrics_ResetsAfterRead ==
  /\ \E values \in InstanceCounterValues, document \in Documents :
       /\ out_result' = Metrics(values, document)
       /\ queried' = Queries(document)
       /\ frontend' = <<>>
       /\ last' = [op |-> "getMetrics", values |-> values, document |-> document,
                   response |-> Response_OK]
  /\ IF enabled_
       THEN /\ layout_duration_' = 0 /\ recalc_style_duration_' = 0
            /\ script_duration_' = 0 /\ task_duration_' = 0
            /\ layout_count_' = 0 /\ recalc_style_count_' = 0
       ELSE UNCHANGED counters
  /\ UNCHANGED <<agent, depths, window, now, probes>>

getMetrics ==
  /\ \E values \in InstanceCounterValues, document \in Documents :
       /\ out_result' = Metrics(values, document)
       /\ queried' = Queries(document)
       /\ frontend' = <<>>
       /\ last' = [op |-> "getMetrics", values |-> values, document |-> document,
                   response |-> Response_OK]
  /\ UNCHANGED <<agent, counters, depths, window, now, probes>>

\* ConsoleTimeStamp() without the early return for a disabled agent.
ConsoleTimeStamp_Ungated ==
  /\ \E title \in Titles, values \in InstanceCounterValues, document \in Documents :
       /\ queried' = Queries(document)
       /\ frontend' = <<[metrics |-> Metrics(values, document), title |-> title]>>
       /\ last' = [op |-> "ConsoleTimeStamp", title |-> title,
                   values |-> values, document |-> document]
  /\ out_result' = <<>>
  /\ UNCHANGED <<agent, counters, depths, window, now, probes>>

ConsoleTimeStamp ==
  /\ \E title \in Titles, values \in InstanceCounterValues, document \in Documents :
       IF ~enabled_
         THEN /\ last' = [op |-> "ConsoleTimeStamp", title |-> title]
              /\ queried' = {}
              /\ frontend' = <<>>
         ELSE /\ queried' = Queries(document)
              /\ frontend' = <<[metrics |-> Metrics(values, document),
                                title |-> title]>>
              /\ last' = [op |-> "ConsoleTimeStamp", title |-> title,
                          values |-> values, document |-> document]
  /\ out_result' = <<>>
  /\ UNCHANGED <<agent, counters, depths, window, now, probes>>

\* ---- The program ----

\* Enabling and disabling, as every part of the program below sees them.
Commands ==
  \/ enable
  \/ disable

\* The agent under the instrumentation dispatcher: the probe handlers.
NextProbes ==
  \/ Commands
  \/ WillCallFunction
  \/ DidCallFunction
  \/ WillExecuteScript
  \/ DidExecuteScript
  \/ WillRecalculateStyle
  \/ DidRecalculateStyle
  \/ WillUpdateLayout
  \/ DidUpdateLayout
  \/ \E kind \in Kinds : ProbeBeginDetached(kind)
  \/ ProbeEndDetached
  \/ Tick

SpecProbes == Init /\ [][NextProbes]_vars

\* The agent under the task scheduler: the task time observer.
NextTasks ==
  \/ Commands
  \/ Restore
  \/ WillProcessTask
  \/ DidProcessTask
  \/ Tick

SpecTasks == Init /\ [][NextTasks]_vars

\* The agent under the protocol: commands and snapshots, with layout and
\* task events to fill the counters.
NextProtocol ==
  \/ Commands
  \/ Restore
  \/ getMetrics
  \/ ConsoleTimeStamp
  \/ WillUpdateLayout
  \/ DidUpdateLayout
  \/ WillProcessTask
  \/ DidProcessTask
  \/ ProbeBeginDetached("UpdateLayout")
  \/ ProbeEndDetached
  \/ Tick

SpecProtocol == Init /\ [][NextProtocol]_vars

\* ---- Properties ----

\* The last handler was the end-event of a probe of `kind` whose begin-event
\* the agent received, and the agent received both events or neither of every
\* pair of that category nested in it: a well-nested sequence.
WellNestedEnd(kind) ==
  /\ last.op = "Did"
  /\ last.kind = kind
  /\ last.probe.delivered
  /\ Group(kind) \notin last.probe.broken

\* The wall time of the pair that just ended.
Span == last.at - last.probe.begin

\* C1: a well-nested sequence of layout events that starts at layout depth 0
\* adds the outermost pair's wall time to LayoutDuration and 1 to LayoutCount,
\* whatever pairs are nested in it.
C1_NestedLayoutCountsOuterSpan ==
  (WellNestedEnd("UpdateLayout") /\ last.probe.depth0 = 0) =>
    /\ layout_duration_ = last.probe.dur0 + Span
    /\ layout_count_ = last.probe.cnt0 + 1

\* An outermost layout pair with a nested layout pair has just ended.
C1_Witness ==
  /\ WellNestedEnd("UpdateLayout")
  /\ last.probe.depth0 = 0
  /\ "layout" \in last.probe.inner
  /\ Span >= 3
  /\ layout_duration_ = last.probe.dur0 + Span
  /\ layout_count_ = last.probe.cnt0 + 1

\* C2: every style recalculation end-event whose begin-event the agent
\* received adds 1 to RecalcStyleCount and the call's own span to
\* RecalcStyleDuration, nested or not.
C2_EveryRecalcStyleCounts ==
  (last.op = "Did" /\ last.kind = "RecalculateStyle" /\ last.probe.delivered) =>
    /\ recalc_style_count_ = last.count + 1
    /\ recalc_style_duration_ = last.duration + Span

\* An outer style recalculation with a nested one has just ended: two counts
\* and both spans (1 for the inner, 3 for the outer) since the outer began.
C2_Witness ==
  /\ WellNestedEnd("RecalculateStyle")
  /\ "style" \in last.probe.inner
  /\ Span = 3
  /\ recalc_style_count_ = last.probe.cnt0 + 2
  /\ recalc_style_duration_ = last.probe.dur0 + 1 + 3

\* What DidProcessTask(start_time, end_time) adds when it adds.
TaskSpan == last.end_time - last.start_time

\* C3 as stated: DidProcessTask adds end_time - start_time to TaskDuration
\* exactly when start_time is the start time the most recent WillProcessTask
\* stored, and otherwise leaves TaskDuration unchanged.
C3_AddsIffStartOfLatestBegin ==
  last.op = "DidProcessTask" =>
    task_duration_ = IF last.start_time = last.begun
                       THEN last.before + TaskSpan
                       ELSE last.before

\* C3 as amended: DidProcessTask adds end_time - start_time to TaskDuration
\* exactly when start_time is the stored task window, which is the start time
\* of the most recent WillProcessTask unless an enable() has reset it to 0
\* since; otherwise TaskDuration is unchanged.  No task event touches another
\* counter.
C3_AddsIffStoredWindow ==
  /\ task_start_time_ \in {0, task_begun.start_time}
  /\ last.op = "DidProcessTask" =>
       /\ task_duration_ = IF last.start_time = last.stored
                             THEN last.before + TaskSpan
                             ELSE last.before
       /\ layout_duration_ = 0 /\ recalc_style_duration_ = 0
       /\ script_duration_ = 0 /\ layout_count_ = 0 /\ recalc_style_count_ = 0

\* After a matched task pair has added its interval, an end-event whose start
\* time differs from the window of a later WillProcessTask is discarded.
C3_Witness ==
  /\ last.op = "DidProcessTask"
  /\ last.stored # 0
  /\ last.start_time # last.stored
  /\ last.before > 0
  /\ task_duration_ = last.before

\* C4: each WillProcessTask contributes at most one interval to TaskDuration:
\* the matching end-event consumes the window.
C4_WindowConsumedByMatchingEnd == task_begun.intervals <= 1

\* C5: the script and layout depth counters are never negative.
C5_DepthsNeverNegative == script_call_depth_ >= 0 /\ layout_depth_ >= 0

\* No probe of the category of the pair that just ended is still open.
Outermost ==
  \A i \in 1..Len(probes) : Group(probes[i].kind) # Group(last.kind)

\* C6: a well-formed outermost pair of a guarded category that begins with no
\* begin-event outstanding at the agent (depth 0, or below 0 after an
\* end-event without a begin-event) adds its span to the category's duration,
\* and 1 to LayoutCount for layout.
C6_PairAfterUnmatchedEndCounts ==
  (/\ last.op = "Did"
   /\ Group(last.kind) \in {"script", "layout"}
   /\ WellNestedEnd(last.kind)
   /\ Outermost
   /\ last.probe.depth0 <= 0) =>
     IF Group(last.kind) = "script"
       THEN script_duration_ = last.duration + Span
       ELSE /\ layout_duration_ = last.duration + Span
            /\ layout_count_ = last.count + 1

\* What one registration per enabled agent means.
Registrations == IF enabled_ THEN 1 ELSE 0

\* C7: the agent is registered with the instrumentation dispatcher and with
\* the task scheduler exactly once when enabled and not at all when disabled,
\* after any sequence of enable(), disable() and Restore(); each of them
\* reports success.
C7_RegisteredOnceIffEnabled ==
  /\ instrumenting_agents_ = Registrations
  /\ task_time_observers = Registrations
  /\ last.op \in {"enable", "disable", "Restore"} => last.response = Response_OK

\* enable() has just run on an agent that was already enabled.
C7_Witness ==
  /\ last.op = "enable"
  /\ last.was
  /\ enabled_
  /\ instrumenting_agents_ = 1
  /\ task_time_observers = 1

\* C8 as stated: after every completed enable() or disable(), from any state,
\* the persisted flag equals the enabled state.
C8_FlagEqualsEnabledAfterCommand ==
  last.op \in {"enable", "disable"} => state_ = enabled_

\* C8 as amended: after every completed enable(), and after every completed
\* disable() that found the agent enabled, the persisted flag equals the
\* enabled state; a disable() that finds the agent disabled leaves the flag as
\* it was; and the two differ only as a true flag on a disabled agent.
C8_FlagFollowsEffectiveCommand ==
  /\ last.op = "enable" => state_ = enabled_
  /\ (last.op = "disable" /\ last.was) => state_ = enabled_
  /\ (last.op = "disable" /\ ~last.was) => state_ = last.flag
  /\ state_ # enabled_ => (state_ /\ ~enabled_)

\* disable() has just run on an enabled agent and persisted false.
C8_Witness ==
  /\ last.op = "disable"
  /\ last.was
  /\ last.flag
  /\ ~state_
  /\ ~enabled_

\* C9: enable() and disable() leave every count and duration as it was, and
\* disable() on a disabled agent leaves the whole state as it was.
C9_CommandsKeepCounters ==
  [][/\ last'.op \in {"enable", "disable"} => UNCHANGED counters
     /\ (last'.op = "disable" /\ ~enabled_) =>
          UNCHANGED <<agent, counters, depths, window, now, probes>>]_vars

\* enable() has just re-enabled an agent that holds totals from an earlier
\* enabled period.
C9_Witness ==
  /\ last.op = "enable"
  /\ ~last.was
  /\ ~last.flag
  /\ layout_count_ > 0
  /\ layout_duration_ > 0
  /\ task_duration_ > 0

\* C10: getMetrics() on a disabled agent returns an empty list and queries no
\* collaborator, whatever the counters hold.
C10_DisabledGetMetricsIsEmpty ==
  (last.op = "getMetrics" /\ ~enabled_) => (out_result = <<>> /\ queried = {})

\* getMetrics() has just run on an agent disabled after accumulating totals.
C10_Witness ==
  /\ last.op = "getMetrics"
  /\ ~enabled_
  /\ layout_count_ > 0
  /\ out_result = <<>>
  /\ queried = {}


\* The number of instance-counter types.
NumCounters == Len(kInstanceCounterNames)

\* The names and values the six page metrics must carry, in order.
ExpectedPageMetrics ==
  <<[name |-> "LayoutCount", value |-> layout_count_],
    [name |-> "RecalcStyleCount", value |-> recalc_style_count_],
    [name |-> "LayoutDuration", value |-> layout_duration_],
    [name |-> "RecalcStyleDuration", value |-> recalc_style_duration_],
    [name |-> "ScriptDuration", value |-> script_duration_],
    [name |-> "TaskDuration", value |-> task_duration_]>>

\* C11: getMetrics() on an enabled agent returns one metric per instance
\* counter in the provider's order, then LayoutCount, RecalcStyleCount,
\* LayoutDuration, RecalcStyleDuration, ScriptDuration, TaskDuration with the
\* current values, then FirstMeaningfulPaint and DomContentLoaded exactly
\* when a document is available.
C11_EnabledSnapshotOrder ==
  (last.op = "getMetrics" /\ enabled_) =>
    /\ Len(out_result) =
         NumCounters + 6 + (IF last.document.available THEN 2 ELSE 0)
    /\ \A i \in 1..NumCounters :
         out_result[i] = [name |-> kInstanceCounterNames[i],
                          value |-> last.values[i]]
    /\ SubSeq(out_result, NumCounters + 1, NumCounters + 6) = ExpectedPageMetrics
    /\ last.document.available =>
         /\ out_result[NumCounters + 7] =
              [name |-> "FirstMeaningfulPaint",
               value |-> last.document.FirstMeaningfulPaint]
         /\ out_result[NumCounters + 8] =
              [name |-> "DomContentLoaded",
               value |-> last.document.DomContentLoadedEventStart]

\* getMetrics() has just run on an enabled agent with totals accumulated and
\* no document: the list ends after TaskDuration.
C11_Witness ==
  /\ last.op = "getMetrics"
  /\ enabled_
  /\ ~last.document.available
  /\ layout_duration_ > 0
  /\ task_duration_ > layout_duration_
  /\ Len(out_result) = NumCounters + 6
  /\ out_result[Len(out_result)].name = "TaskDuration"


\* The six page metrics of a snapshot.
PageMetricsOf(snapshot) == SubSeq(snapshot, NumCounters + 1, NumCounters + 6)

\* C12: getMetrics() changes no count, duration, depth, task window, enabled
\* flag, persisted flag or registration, enabled or not; two getMetrics()
\* calls in a row report the same counter values.
C12_GetMetricsIsPureRead ==
  [][/\ last'.op = "getMetrics" =>
          UNCHANGED <<agent, counters, depths, window, now, probes>>
     /\ (last.op = "getMetrics" /\ last'.op = "getMetrics" /\ enabled_) =>
          PageMetricsOf(out_result') = PageMetricsOf(out_result)]_vars

\* getMetrics() has just run on an enabled agent that holds totals and has a
\* layout in flight.
C12_Witness ==
  /\ last.op = "getMetrics"
  /\ enabled_
  /\ layout_count_ > 0
  /\ task_duration_ > 0
  /\ layout_depth_ > 0
  /\ PageMetricsOf(out_result) = ExpectedPageMetrics

\* C13: ConsoleTimeStamp(title) pushes nothing when the agent is disabled;
\* when enabled it pushes exactly one event, carrying the title and the list
\* getMetrics() builds in that state; it changes no counter.
C13_TimeStampPushesOneSnapshot ==
  [][last'.op = "ConsoleTimeStamp" =>
       /\ UNCHANGED <<agent, counters, depths, window>>
       /\ frontend' =
            IF enabled_
              THEN <<[metrics |-> Metrics(last'.values, last'.document),
                      title |-> last'.title]>>
              ELSE <<>>]_vars

\* ConsoleTimeStamp() has just pushed one event from an enabled agent that
\* holds totals.
C13_Witness ==
  /\ last.op = "ConsoleTimeStamp"
  /\ enabled_
  /\ layout_count_ > 0
  /\ Len(frontend) = 1
  /\ frontend[1].title = last.title
  /\ PageMetricsOf(frontend[1].metrics) = ExpectedPageMetrics


\* C14: Restore() on a disabled agent, a freshly constructed one included,
\* leaves it enabled and registered once exactly when the persisted flag is
\* true, and disabled with nothing registered when the flag is false; after a
\* Restore() that enabled, enable() changes nothing and disable() disables,
\* unregisters and persists false.
C14_RestoreFollowsPersistedFlag ==
  [][/\ (last'.op = "Restore" /\ ~enabled_) =>
          /\ enabled_' = state_
          /\ state_' = state_
          /\ instrumenting_agents_' = (IF state_ THEN 1 ELSE 0)
          /\ task_time_observers' = (IF state_ THEN 1 ELSE 0)
     /\ (last.op = "Restore" /\ enabled_ /\ last'.op = "enable") =>
          UNCHANGED <<agent, counters, depths, window, now, probes>>
     /\ (last.op = "Restore" /\ enabled_ /\ last'.op = "disable") =>
          /\ ~enabled_' /\ ~state_'
          /\ instrumenting_agents_' = 0
          /\ task_time_observers' = 0]_vars

\* Restore() has just enabled an agent from a true persisted flag.
C14_Witness ==
  /\ last.op = "Restore"
  /\ ~last.was
  /\ last.flag
  /\ enabled_
  /\ instrumenting_agents_ = 1
  /\ task_time_observers = 1

\* The handlers the dispatcher and the scheduler call.
EventOps == {"Will", "Did", "WillProcessTask", "DidProcessTask"}

\* C15: a probe or task event changes a count, a duration, a depth or the
\* task window only while the agent is enabled, and no count or duration
\* changes in any step taken while the agent is disabled.
C15_MutationOnlyWhileEnabled ==
  [][/\ (last'.op \in EventOps /\
           <<counters, depths, task_start_time_>>' #
             <<counters, depths, task_start_time_>>) => enabled_
     /\ ~enabled_ => UNCHANGED counters]_vars

\* A layout ended with the hooks detached on a disabled agent that holds
\* totals from its enabled period.
C15_Witness ==
  /\ last.op = "ProbeEndDetached"
  /\ ~enabled_
  /\ layout_count_ > 0


\* C16: a step that changes ScriptDuration is a script or function end-event
\* taking the script depth from 1 to 0, and a step that changes
\* LayoutDuration or LayoutCount is a layout end-event taking the layout depth
\* from 1 to 0; begin-events and end-events that leave the depth above 0
\* change none of them.
C16_GuardedTotalsChangeOnlyAtOneToZero ==
  [][/\ script_duration_' # script_duration_ =>
          /\ last'.op = "Did"
          /\ Group(last'.kind) = "script"
          /\ script_call_depth_ = 1
          /\ script_call_depth_' = 0
     /\ <<layout_duration_, layout_count_>>' # <<layout_duration_, layout_count_>> =>
          /\ last'.op = "Did"
          /\ last'.kind = "UpdateLayout"
          /\ layout_depth_ = 1
          /\ layout_depth_' = 0]_vars

\* An inner script end-event left the depth at 1 and the total alone, inside
\* an outer script probe that began at depth 0.
C16_Witness ==
  /\ last.op = "Did"
  /\ Group(last.kind) = "script"
  /\ last.probe.delivered
  /\ last.probe.depth0 = 1
  /\ last.at > last.probe.begin
  /\ script_call_depth_ = 1
  /\ script_duration_ = last.duration


\* The depth counter of a guarded category.
DepthOf(group) == IF group = "script" THEN script_call_depth_ ELSE layout_depth_

\* The begin-events of `group` the agent received from position i of the
\* stack upwards whose end is still to come.
OpenBegins(group, i) ==
  Cardinality({j \in i..Len(probes) :
                 Group(probes[j].kind) = group /\ probes[j].delivered})

\* The events of `group` since the probe at position i began are well formed:
\* the agent saw both events or neither of every pair that has ended.
WellFormedSince(group, i) ==
  \A j \in i..Len(probes) : group \notin probes[j].broken

\* C17: in a well-formed sequence of begin/end pairs of a guarded category
\* that starts at depth 0, the category's depth counter equals the number of
\* open begins while the sequence runs and is 0 again when it has ended.
C17_DepthCountsOpenBegins ==
  /\ \A i \in 1..Len(probes) :
       LET group == Group(probes[i].kind)
       IN (/\ group \in {"script", "layout"}
           /\ probes[i].delivered
           /\ probes[i].depth0 = 0
           /\ WellFormedSince(group, i)) =>
             DepthOf(group) = OpenBegins(group, i)
  /\ \A kind \in {"CallFunction", "ExecuteScript", "UpdateLayout"} :
       (WellNestedEnd(kind) /\ last.probe.depth0 = 0) =>
         DepthOf(Group(kind)) = 0

\* A script sequence with a nested pair has ended and the depth is 0 again.
C17_Witness ==
  /\ \E kind \in {"CallFunction", "ExecuteScript"} : WellNestedEnd(kind)
  /\ last.probe.depth0 = 0
  /\ "script" \in last.probe.inner
  /\ script_call_depth_ = 0
  /\ probes = <<>>


\* C18: after a disable() that left begin-events of a guarded category
\* outstanding at the agent (their end-events were not delivered, so the
\* depth stayed above 0) and a later enable(), a well-formed outermost pair
\* of that category adds its span to the category's duration, and 1 to
\* LayoutCount for layout.
C18_PairAfterMidFlightDisableCounts ==
  (/\ last.op = "Did"
   /\ Group(last.kind) \in {"script", "layout"}
   /\ WellNestedEnd(last.kind)
   /\ Outermost
   /\ last.probe.depth0 >= 1) =>
     IF Group(last.kind) = "script"
       THEN script_duration_ = last.duration + Span
       ELSE /\ layout_duration_ = last.duration + Span
            /\ layout_count_ = last.count + 1


\* C19: enable() on a disabled agent sets the task window to unset (0); the
\* window stays unset until the next WillProcessTask, and while it is unset
\* DidProcessTask leaves TaskDuration unchanged whatever start time it
\* reports, the start of a task begun in an earlier enabled period included.
C19_EnableResetsTaskWindow ==
  [][/\ (last'.op \in {"enable", "Restore"} /\ ~enabled_ /\ enabled_') =>
          task_start_time_' = 0
     /\ (task_start_time_ = 0 /\ task_start_time_' # 0) =>
          last'.op = "WillProcessTask"
     /\ (last'.op = "DidProcessTask" /\ task_start_time_ = 0) =>
          task_duration_' = task_duration_]_vars

\* After a re-enable, the end-event of the task that began in the previous
\* enabled period reported that task's start time and added nothing.
C19_Witness ==
  /\ last.op = "DidProcessTask"
  /\ last.stored = 0
  /\ last.begun # 0
  /\ last.start_time = last.begun
  /\ task_duration_ = last.before


\* The two probe kinds that share script_call_depth_ and script_duration_.
ScriptKinds == {"CallFunction", "ExecuteScript"}

\* C20: function calls and script executions share one depth and one total:
\* the end of a pair of either kind nested in an open pair of either kind
\* leaves ScriptDuration unchanged, and the end of the outermost pair leaves
\* ScriptDuration grown since its begin by its own wall time only, whatever
\* pairs of the two kinds were nested in it.
C20_SharedScriptDepthCountsOuterSpan ==
  \A kind \in ScriptKinds :
    /\ (WellNestedEnd(kind) /\ last.probe.depth0 >= 1) =>
         script_duration_ = last.duration
    /\ (WellNestedEnd(kind) /\ last.probe.depth0 = 0) =>
         script_duration_ = last.probe.dur0 + Span

\* A function call nested in an open script execution has just ended and
\* added nothing.
C20_Witness ==
  /\ WellNestedEnd("CallFunction")
  /\ Len(probes) = 1
  /\ probes[1].kind = "ExecuteScript"
  /\ probes[1].delivered
  /\ probes[1].depth0 = 0
  /\ last.probe.depth0 = 1
  /\ script_duration_ = last.duration

====
